---- MODULE Spec2Model ----
(***************************************************************************)
(* MemoryList (src/src/MemoryList.h): a FIFO list of single-line payloads  *)
(* kept in one file on an SD card.  The file is modelled byte by byte, as  *)
(* a sequence of character codes; offsets are 0-based as in the code, so   *)
(* the byte at offset k is f[k+1].                                         *)
(*                                                                         *)
(* File-system primitives are modelled by what the code and the tests of   *)
(* the repository rely on: println writes the text followed by CR LF, an   *)
(* open with FILE_WRITE followed by seek(offset) and write(byte) rewrites  *)
(* that byte in place, remove + open(FILE_WRITE) leaves an empty file.     *)
(*                                                                         *)
(* Spec and SpecPushRemove are the store on a card whose calls all         *)
(* succeed.  SpecIO is the store on a card whose calls may fail: every     *)
(* operation takes the fault it meets as an input, and defragment runs as  *)
(* three steps (copy, remove the original, rename the temporary file), so  *)
(* that the states in between are states of the model.                     *)
(*                                                                         *)
(* SpecQuery adds the const member functions to the operations.  SpecCard  *)
(* is the constructor on a card that already holds a file, followed by     *)
(* queries.  SpecConstruct is a construction that may fail followed by the *)
(* operations of SpecIO.  SpecThreads lets a second thread of control push *)
(* and remove while a defragment of the first is between its steps.        *)
(* SpecLf is the constructor on a file of LF-terminated lines, some of     *)
(* length 0, followed by queries.  SpecGetLast runs getLast one iteration  *)
(* of its outer loop per step on a store constructed over a file of any    *)
(* content; FairGetLast adds that an iteration that can run does.          *)
(***************************************************************************)
EXTENDS Integers, Sequences, FiniteSets, TLC

VARIABLES
    file,          \* bytes of the backing file at filePath
    currentSize,   \* MemoryList::currentSize, the cached number of entries
    last,          \* the last operation: its name, argument, result and pre-state
    abs,           \* the abstract FIFO list the operations are meant to maintain
    nPush,         \* number of push calls that returned true so far
    nRemove,       \* number of remove calls with index < size() so far
    io             \* the card: whether the file at filePath exists, the temporary
                   \* file and the position of a defragment in progress, the
                   \* I/O fault met by the last operation, and the scan position
                   \* and window size of a getLast in progress

vars == <<file, currentSize, last, abs, nPush, nRemove, io>>

-----------------------------------------------------------------------------
(* Character codes and constants of the program *)

LF == 10
CR == 13
TOMBSTONE == 36
bufferSize == 512
ThresholdNum == 7
ThresholdDen == 10
DefragThresholdNum == 6
DefragThresholdDen == 10

(* Bounds of the model *)

MaxPushes == 5
MaxPayloadLen == 2
MaxWindow == 4
MaxPushesIO == 3
MaxIndeterminate == 2
MaxCardLines == 3
MaxFileLen == 6

\* Serialized payloads: non-empty, line-safe, no surrounding white space.  As in
\* the tests ("item" + String(i)), the n-th payload pushed carries its serial
\* number: it is 1..MaxPayloadLen copies of the letter 'A' + n.
Payloads(n) ==
    {[i \in 1..len |-> 65 + n] : len \in 1..MaxPayloadLen}

WindowSizes == (1..MaxWindow) \cup {bufferSize}

Min(a, b) == IF a < b THEN a ELSE b

-----------------------------------------------------------------------------
(* Arduino String and Stream primitives *)

IsSpace(c) == c \in {9, 10, 11, 12, 13, 32}

RECURSIVE StripLeft(_)
StripLeft(s) ==
    IF Len(s) > 0 /\ IsSpace(s[1]) THEN StripLeft(Tail(s)) ELSE s

RECURSIVE StripRight(_)
StripRight(s) ==
    IF Len(s) > 0 /\ IsSpace(s[Len(s)])
    THEN StripRight(SubSeq(s, 1, Len(s) - 1))
    ELSE s

\* String::trim()
trim(s) == StripRight(StripLeft(s))

\* String::operator[] / charAt: 0 when the index is out of range
charAt(s, k) == IF k < Len(s) THEN s[k + 1] ELSE 0

\* Offset of the first LF at or after pos, or the file length when there is none.
RECURSIVE LineEnd(_, _)
LineEnd(f, pos) ==
    IF pos >= Len(f) THEN Len(f)
    ELSE IF f[pos + 1] = LF THEN pos
    ELSE LineEnd(f, pos + 1)

\* Stream::readStringUntil('\n') with the read position at pos: the bytes up
\* to the next LF (not included) or to the end of the file.
readStringUntil(f, pos) == SubSeq(f, pos + 1, LineEnd(f, pos))

\* The read position after that call: the LF is consumed.
NextPos(f, pos) == Min(LineEnd(f, pos) + 1, Len(f))

\* Print::println(text): the text, CR, LF
println(s) == s \o <<CR, LF>>

\* writeAt with the byte written one offset further on.
writeAtNext(f, off, b) ==
    IF off + 1 < Len(f) THEN [f EXCEPT ![off + 2] = b]
    ELSE IF off + 1 = Len(f) THEN Append(f, b)
    ELSE f

\* File::seek(off) and File::write(byte) on a file opened with FILE_WRITE.
writeAt(f, off, b) ==
    IF off < Len(f) THEN [f EXCEPT ![off + 1] = b]
    ELSE IF off = Len(f) THEN Append(f, b)
    ELSE f

-----------------------------------------------------------------------------
(* Forward scans *)

RECURSIVE calcSizeFrom(_, _)
calcSizeFrom(f, pos) ==
    IF pos >= Len(f) THEN 0
    ELSE LET line == readStringUntil(f, pos)
         IN (IF Len(line) > 0 /\ charAt(line, 0) # TOMBSTONE THEN 1 ELSE 0)
            + calcSizeFrom(f, NextPos(f, pos))

calcSize(f) == calcSizeFrom(f, 0)

\* readLineFrom with the line[0] != TOMBSTONE test missing.
RECURSIVE readLineFromAnyLine(_, _, _, _, _)
readLineFromAnyLine(f, line_no, pos, validLineCount, cursorPosition_) ==
    IF pos >= Len(f)
    THEN [line |-> <<>>, cursor |-> cursorPosition_]
    ELSE LET line == readStringUntil(f, pos)
         IN IF validLineCount = line_no
            THEN [line |-> trim(line), cursor |-> cursorPosition_]
            ELSE readLineFromAnyLine(f, line_no, NextPos(f, pos),
                                     validLineCount + 1,
                                     cursorPosition_ + Len(line) + 1)

RECURSIVE readLineFrom(_, _, _, _, _)
readLineFrom(f, line_no, pos, validLineCount, cursorPosition_) ==
    IF pos >= Len(f)
    THEN [line |-> <<>>, cursor |-> cursorPosition_]
    ELSE LET line == readStringUntil(f, pos)
             live == charAt(line, 0) # TOMBSTONE
         IN IF live /\ validLineCount = line_no
            THEN [line |-> trim(line), cursor |-> cursorPosition_]
            ELSE readLineFrom(f, line_no, NextPos(f, pos),
                              IF live THEN validLineCount + 1 ELSE validLineCount,
                              cursorPosition_ + Len(line) + 1)

readLine(f, line_no) == readLineFrom(f, line_no, 0, 0, 0)

\* get with the index >= currentSize test missing.
getUnchecked(f, size, index) == readLine(f, index).line

get(f, size, index) ==
    IF index >= size THEN <<>> ELSE readLine(f, index).line

isEmpty(size) == size = 0

\* validDataSizeFrom with the + 1 for the newline missing.
RECURSIVE validDataSizeFromNoNewline(_, _)
validDataSizeFromNoNewline(f, pos) ==
    IF pos >= Len(f) THEN 0
    ELSE LET line == readStringUntil(f, pos)
         IN (IF Len(line) > 0 /\ charAt(line, 0) # TOMBSTONE
             THEN Len(line) ELSE 0)
            + validDataSizeFromNoNewline(f, NextPos(f, pos))

RECURSIVE validDataSizeFrom(_, _)
validDataSizeFrom(f, pos) ==
    IF pos >= Len(f) THEN 0
    ELSE LET line == readStringUntil(f, pos)
         IN (IF Len(line) > 0 /\ charAt(line, 0) # TOMBSTONE
             THEN Len(line) + 1 ELSE 0)
            + validDataSizeFrom(f, NextPos(f, pos))

\* getFragmentationRatio as the fraction num / den (0 / 1 for an empty file)
getFragmentationRatio(f) ==
    IF Len(f) = 0 THEN [num |-> 0, den |-> 1]
    ELSE [num |-> Len(f) - validDataSizeFrom(f, 0), den |-> Len(f)]

RatioGeq(r, n, d) == r.num * d >= n * r.den

shouldDefragment(f) ==
    RatioGeq(getFragmentationRatio(f), ThresholdNum, ThresholdDen)

-----------------------------------------------------------------------------
(* Backward scan of getLast *)

\* readLineFromPos(cursor_pos, file)
readLineFromPos(f, cursor_pos) ==
    IF cursor_pos < Len(f) THEN trim(readStringUntil(f, cursor_pos)) ELSE <<>>

\* scanBuffer with the tombstone test missing where the LF is the last byte of
\* the window.
RECURSIVE scanBufferNoBoundaryTest(_, _, _, _)
scanBufferNoBoundaryTest(f, pos, bytesRead, i) ==
    LET b == f[pos + i + 1]
        val == IF b = LF THEN readLineFromPos(f, pos + 1 + i)
                         ELSE readLineFromPos(f, 0)
        hit == IF b = LF
               THEN IF i = bytesRead - 1
                    THEN Len(val) > 0
                    ELSE f[pos + i + 2] # TOMBSTONE /\ Len(val) > 0
               ELSE i = 0 /\ pos = 0 /\ Len(val) > 0 /\ charAt(val, 0) # TOMBSTONE
    IN IF hit THEN [found |-> TRUE, val |-> val]
       ELSE IF i = 0 THEN [found |-> FALSE, val |-> <<>>]
       ELSE scanBufferNoBoundaryTest(f, pos, bytesRead, i - 1)

\* The inner loop of getLast over one window read at offset pos, from index i
\* down to 0: the value returned from inside the loop, if any.
RECURSIVE scanBuffer(_, _, _, _)
scanBuffer(f, pos, bytesRead, i) ==
    LET b == f[pos + i + 1]
        val == IF b = LF THEN readLineFromPos(f, pos + 1 + i)
                         ELSE readLineFromPos(f, 0)
        hit == IF b = LF
               THEN IF i = bytesRead - 1
                    THEN Len(val) > 0 /\ charAt(val, 0) # TOMBSTONE
                    ELSE f[pos + i + 2] # TOMBSTONE /\ Len(val) > 0
               ELSE i = 0 /\ pos = 0 /\ Len(val) > 0 /\ charAt(val, 0) # TOMBSTONE
    IN IF hit THEN [found |-> TRUE, val |-> val]
       ELSE IF i = 0 THEN [found |-> FALSE, val |-> <<>>]
       ELSE scanBuffer(f, pos, bytesRead, i - 1)

\* getLastFrom with the outer loop missing: only the window at the end of the
\* file is read.
getLastFromOneWindow(f, pos, w) ==
    IF pos = 0 THEN <<>>
    ELSE LET readSize == Min(w, pos)
             p == pos - readSize
             r == scanBuffer(f, p, readSize, readSize - 1)
         IN IF r.found THEN r.val ELSE <<>>

\* The outer loop of getLast with the scan position at pos and windows of w bytes.
RECURSIVE getLastFrom(_, _, _)
getLastFrom(f, pos, w) ==
    IF pos = 0 THEN <<>>
    ELSE LET readSize == Min(w, pos)
             p == pos - readSize
             r == scanBuffer(f, p, readSize, readSize - 1)
         IN IF r.found THEN r.val ELSE getLastFrom(f, p, w)

\* getLast with a read window of w bytes
getLastW(f, size, w) ==
    IF size = 0 THEN <<>> ELSE getLastFrom(f, Len(f), w)

getLast(f, size) == getLastW(f, size, bufferSize)

\* deserializeJson(elementDoc, element) reports no error: the text is one
\* serialized payload, byte for byte (no tombstone, no white space inside).
deserializeJson(element) ==
    /\ Len(element) > 0
    /\ \A k \in 1..Len(element) :
           ~IsSpace(element[k]) /\ element[k] # TOMBSTONE

\* The loop of getFirst returning the elements added so far, without
\* doc.clear(), when a line cannot be read or parsed.
RECURSIVE getFirstFromPartial(_, _, _, _)
getFirstFromPartial(f, numElements, i, doc) ==
    IF Len(doc) >= numElements THEN doc
    ELSE LET element == readLine(f, i).line
         IN IF element = <<>> THEN doc
            ELSE IF ~deserializeJson(element) THEN doc
            ELSE getFirstFromPartial(f, numElements, i + 1, Append(doc, element))

\* The loop of getFirst at index i with the elements added so far in doc; every
\* element is represented by its serialized text.
RECURSIVE getFirstFrom(_, _, _, _)
getFirstFrom(f, numElements, i, doc) ==
    IF Len(doc) >= numElements THEN doc
    ELSE LET element == readLine(f, i).line
         IN IF element = <<>> THEN <<>>
            ELSE IF ~deserializeJson(element) THEN <<>>
            ELSE getFirstFrom(f, numElements, i + 1, Append(doc, element))

\* getFirst with the min(count, currentSize) missing.
getFirstNoMin(f, size, count) ==
    IF size = 0 THEN <<>> ELSE getFirstFrom(f, count, 0, <<>>)

getFirst(f, size, count) ==
    IF size = 0 THEN <<>> ELSE getFirstFrom(f, Min(count, size), 0, <<>>)

getStats(f, size) ==
    [size |-> size, fragmentation |-> getFragmentationRatio(f),
     fileSize |-> Len(f)]

\* The queries where getStats opens the file with FILE_WRITE, which empties it.
queryOpensForWrite(f, size, name, arg) ==
    [file |-> IF name = "getStats" THEN <<>> ELSE f,
     size |-> size,
     ret |-> CASE name = "size" -> size
               [] name = "isEmpty" -> isEmpty(size)
               [] name = "get" -> get(f, size, arg)
               [] name = "getLast" -> getLast(f, size)
               [] name = "getFirst" -> getFirst(f, size, arg)
               [] name = "getFragmentationRatio" -> getFragmentationRatio(f)
               [] name = "shouldDefragment" -> shouldDefragment(f)
               [] name = "getStats" -> getStats(f, size)]

\* The const member functions: each opens the file with FILE_READ at most and
\* assigns no member; the file and currentSize after the call, and the result.
query(f, size, name, arg) ==
    [file |-> f,
     size |-> size,
     ret |-> CASE name = "size" -> size
               [] name = "isEmpty" -> isEmpty(size)
               [] name = "get" -> get(f, size, arg)
               [] name = "getLast" -> getLast(f, size)
               [] name = "getFirst" -> getFirst(f, size, arg)
               [] name = "getFragmentationRatio" -> getFragmentationRatio(f)
               [] name = "shouldDefragment" -> shouldDefragment(f)
               [] name = "getStats" -> getStats(f, size)]

-----------------------------------------------------------------------------
(* Operations that change the file; each yields the new file, the new        *)
(* currentSize and the value returned.                                       *)

\* liveLinesFrom with the tombstone test missing: every non-blank line is copied.
RECURSIVE liveLinesFromAll(_, _)
liveLinesFromAll(f, pos) ==
    IF pos >= Len(f) THEN <<>>
    ELSE LET line == trim(readStringUntil(f, pos))
         IN (IF Len(line) > 0 THEN <<line>> ELSE <<>>)
            \o liveLinesFromAll(f, NextPos(f, pos))

\* The lines defragment copies to the temporary file, trimmed, in file order.
RECURSIVE liveLinesFrom(_, _)
liveLinesFrom(f, pos) ==
    IF pos >= Len(f) THEN <<>>
    ELSE LET line == trim(readStringUntil(f, pos))
         IN (IF Len(line) > 0 /\ charAt(line, 0) # TOMBSTONE
             THEN <<line>> ELSE <<>>)
            \o liveLinesFrom(f, NextPos(f, pos))

\* printLines with every line written twice.
RECURSIVE printLinesTwice(_)
printLinesTwice(lines) ==
    IF lines = <<>> THEN <<>>
    ELSE println(Head(lines)) \o println(Head(lines))
         \o printLinesTwice(Tail(lines))

\* The temporary file: every copied line written with println.
RECURSIVE printLines(_)
printLines(lines) ==
    IF lines = <<>> THEN <<>>
    ELSE println(Head(lines)) \o printLines(Tail(lines))

\* defragment with the first live line not copied.
defragmentDropsFirst(f, size) ==
    IF Len(f) = 0
    THEN [file |-> f, size |-> size, ret |-> TRUE]
    ELSE LET lines == liveLinesFrom(f, 0)
             kept == IF lines = <<>> THEN lines ELSE Tail(lines)
         IN [file |-> printLines(kept), size |-> Len(kept), ret |-> TRUE]

defragment(f, size) ==
    IF Len(f) = 0
    THEN [file |-> f, size |-> size, ret |-> TRUE]
    ELSE LET lines == liveLinesFrom(f, 0)
         IN [file |-> printLines(lines), size |-> Len(lines), ret |-> TRUE]

\* autoDefragment with the call of defragment missing.
autoDefragmentNever(f, size) == [file |-> f, size |-> size, defrag |-> FALSE]

\* The tail of remove and removeFirst: if (shouldDefragment()) defragment();
autoDefragment(f, size) ==
    IF shouldDefragment(f)
    THEN LET d == defragment(f, size)
         IN [file |-> d.file, size |-> d.size, defrag |-> TRUE]
    ELSE [file |-> f, size |-> size, defrag |-> FALSE]

\* push with the line written at the start of the file.
pushAtStart(f, size, element) ==
    IF Len(element) = 0
    THEN [file |-> f, size |-> size, ret |-> FALSE]
    ELSE [file |-> println(trim(element)) \o f, size |-> size + 1, ret |-> TRUE]

push(f, size, element) ==
    IF Len(element) = 0
    THEN [file |-> f, size |-> size, ret |-> FALSE]
    ELSE [file |-> f \o println(trim(element)), size |-> size + 1, ret |-> TRUE]

\* remove with the currentSize-- missing.
removeKeepsSize(f, size, index) ==
    IF index >= size
    THEN [file |-> f, size |-> size, ret |-> <<>>, defrag |-> FALSE]
    ELSE LET r == readLine(f, index)
         IN IF r.line = <<>>
            THEN [file |-> f, size |-> size, ret |-> <<>>, defrag |-> FALSE]
            ELSE LET d == autoDefragment(writeAt(f, r.cursor, TOMBSTONE), size)
                 IN [file |-> d.file, size |-> d.size, ret |-> r.line,
                     defrag |-> d.defrag]

remove(f, size, index) ==
    IF index >= size
    THEN [file |-> f, size |-> size, ret |-> <<>>, defrag |-> FALSE]
    ELSE LET r == readLine(f, index)
         IN IF r.line = <<>>
            THEN [file |-> f, size |-> size, ret |-> <<>>, defrag |-> FALSE]
            ELSE LET d == autoDefragment(writeAt(f, r.cursor, TOMBSTONE), size - 1)
                 IN [file |-> d.file, size |-> d.size, ret |-> r.line,
                     defrag |-> d.defrag]

\* The first pass of removeFirst: the offsets it records for the first count_
\* live lines, with the reader at pos and its own offset counter at currentPos.
RECURSIVE collectPositions(_, _, _, _, _)
collectPositions(f, count_, pos, currentPos, positions) ==
    IF pos >= Len(f) \/ Len(positions) >= count_ THEN positions
    ELSE LET line == trim(readStringUntil(f, pos))
         IN collectPositions(f, count_, NextPos(f, pos),
                             currentPos + Len(line) + 1,
                             IF Len(line) > 0 /\ charAt(line, 0) # TOMBSTONE
                             THEN Append(positions, currentPos)
                             ELSE positions)

\* The second pass of removeFirst: one tombstone byte written at every offset.
RECURSIVE tombstoneAll(_, _)
tombstoneAll(f, positions) ==
    IF positions = <<>> THEN f
    ELSE tombstoneAll(writeAt(f, Head(positions), TOMBSTONE), Tail(positions))

removeFirst(f, size, count) ==
    IF size = 0
    THEN [file |-> f, size |-> size, ret |-> 0, defrag |-> FALSE]
    ELSE LET positions == collectPositions(f, Min(count, size), 0, 0, <<>>)
             d == autoDefragment(tombstoneAll(f, positions),
                                 size - Len(positions))
         IN [file |-> d.file, size |-> d.size, ret |-> Len(positions),
             defrag |-> d.defrag]

\* clear with the currentSize = 0 missing.
clearKeepsSize(f, size) == [file |-> <<>>, size |-> size]

clear(f, size) == [file |-> <<>>, size |-> 0]

-----------------------------------------------------------------------------
(* The operations on a card whose calls may fail.  fault names the call     *)
(* that fails, "none" if none does.                                         *)

\* push where currentSize++ comes before the test of what println returned.
pushIOCountsFirst(f, size, element, fault) ==
    IF fault = "open" \/ Len(element) = 0
    THEN [file |-> f, size |-> size, ret |-> FALSE]
    ELSE IF fault = "write"
    THEN [file |-> f, size |-> size + 1, ret |-> FALSE]
    ELSE push(f, size, element)

\* push: "open" is SD.open(filePath, FILE_APPEND) failing; "write" is println
\* writing no byte and returning 0, the number of bytes it wrote.
pushIO(f, size, element, fault) ==
    IF fault = "open" \/ Len(element) = 0
    THEN [file |-> f, size |-> size, ret |-> FALSE]
    ELSE IF fault = "write"
    THEN [file |-> f, size |-> size, ret |-> FALSE]
    ELSE push(f, size, element)

\* remove: "open" is SD.open(filePath, FILE_WRITE) failing, "seek" and "write"
\* the seek to the line or the write of the tombstone failing; in all three
\* the tombstone byte is not committed.  No result of these calls is tested.
removeIO(f, size, index, fault) ==
    IF fault = "none" THEN remove(f, size, index)
    ELSE IF index >= size
    THEN [file |-> f, size |-> size, ret |-> <<>>, defrag |-> FALSE]
    ELSE LET r == readLine(f, index)
         IN IF r.line = <<>>
            THEN [file |-> f, size |-> size, ret |-> <<>>, defrag |-> FALSE]
            ELSE LET d == autoDefragment(f, size - 1)
                 IN [file |-> d.file, size |-> d.size, ret |-> r.line,
                     defrag |-> d.defrag]

\* removeFirst: "reopen" is SD.open(filePath, FILE_WRITE) failing after the
\* first pass, "seek" the seek to positions[failAt] failing, which ends the
\* second pass.  pass is currentSize at the end of the second pass, before the
\* automatic defragment.
removeFirstIO(f, size, count, fault, failAt) ==
    IF size = 0
    THEN [file |-> f, size |-> size, ret |-> 0, defrag |-> FALSE, pass |-> size]
    ELSE LET positions == collectPositions(f, Min(count, size), 0, 0, <<>>)
             done == IF fault = "seek" THEN SubSeq(positions, 1, failAt)
                                       ELSE positions
             d == autoDefragment(tombstoneAll(f, done), size - Len(done))
         IN IF fault = "reopen"
            THEN [file |-> f, size |-> size, ret |-> 0, defrag |-> FALSE,
                  pass |-> size]
            ELSE [file |-> d.file, size |-> d.size, ret |-> Len(positions),
                  defrag |-> d.defrag, pass |-> size - Len(done)]

-----------------------------------------------------------------------------
(* The abstract list *)

DeleteAt(s, i) ==
    IF i < Len(s) THEN SubSeq(s, 1, i) \o SubSeq(s, i + 2, Len(s)) ELSE s

DropFirst(s, n) == SubSeq(s, Min(n, Len(s)) + 1, Len(s))

-----------------------------------------------------------------------------
(* The state machine *)

\* The card between two operations that met no fault: the file exists, there
\* is no temporary file and no defragment in progress.
IoIdle ==
    [pc |-> "idle", exists |-> TRUE, tempExists |-> FALSE, temp |-> <<>>,
     validCount |-> 0, fault |-> "none", passSize |-> 0, pos |-> 0,
     window |-> 0]

Init ==
    /\ file = <<>>
    /\ currentSize = calcSize(<<>>)
    /\ last = [op |-> "construct", arg |-> 0, ret |-> TRUE, defrag |-> FALSE,
               file |-> <<>>, size |-> 0]
    /\ abs = <<>>
    /\ nPush = 0
    /\ nRemove = 0
    /\ io = IoIdle

Push(element) ==
    /\ nPush < MaxPushes
    /\ LET r == push(file, currentSize, element)
       IN /\ file' = r.file
          /\ currentSize' = r.size
          /\ last' = [op |-> "push", arg |-> element, ret |-> r.ret,
                      defrag |-> FALSE, file |-> file, size |-> currentSize]
          /\ abs' = IF r.ret THEN Append(abs, element) ELSE abs
          /\ nPush' = IF r.ret THEN nPush + 1 ELSE nPush
    /\ UNCHANGED nRemove

Remove(index) ==
    /\ LET r == remove(file, currentSize, index)
       IN /\ file' = r.file
          /\ currentSize' = r.size
          /\ last' = [op |-> "remove", arg |-> index, ret |-> r.ret,
                      defrag |-> r.defrag, file |-> file, size |-> currentSize]
    /\ abs' = IF index < currentSize THEN DeleteAt(abs, index) ELSE abs
    /\ nRemove' = IF index < currentSize THEN nRemove + 1 ELSE nRemove
    /\ UNCHANGED nPush

RemoveFirst(count) ==
    /\ LET r == removeFirst(file, currentSize, count)
       IN /\ file' = r.file
          /\ currentSize' = r.size
          /\ last' = [op |-> "removeFirst", arg |-> count, ret |-> r.ret,
                      defrag |-> r.defrag, file |-> file, size |-> currentSize]
    /\ abs' = DropFirst(abs, Min(count, currentSize))
    /\ UNCHANGED <<nPush, nRemove>>

Defragment ==
    /\ LET r == defragment(file, currentSize)
       IN /\ file' = r.file
          /\ currentSize' = r.size
          /\ last' = [op |-> "defragment", arg |-> 0, ret |-> r.ret,
                      defrag |-> FALSE, file |-> file, size |-> currentSize]
    /\ UNCHANGED <<abs, nPush, nRemove>>

Clear ==
    /\ LET r == clear(file, currentSize)
       IN /\ file' = r.file
          /\ currentSize' = r.size
          /\ last' = [op |-> "clear", arg |-> 0, ret |-> TRUE,
                      defrag |-> FALSE, file |-> file, size |-> currentSize]
    /\ abs' = <<>>
    /\ UNCHANGED <<nPush, nRemove>>

Next ==
    \/ \E element \in Payloads(nPush) : Push(element) /\ UNCHANGED io
    \/ \E index \in 0..currentSize : Remove(index) /\ UNCHANGED io
    \/ \E count \in 0..(currentSize + 1) : RemoveFirst(count) /\ UNCHANGED io
    \/ Defragment /\ UNCHANGED io
    \/ Clear /\ UNCHANGED io

Spec == Init /\ [][Next]_vars

\* The store driven by push and remove only.
NextPushRemove ==
    \/ \E element \in Payloads(nPush) : Push(element) /\ UNCHANGED io
    \/ \E index \in 0..currentSize : Remove(index) /\ UNCHANGED io

SpecPushRemove == Init /\ [][NextPushRemove]_vars

-----------------------------------------------------------------------------
(* The state machine on a card whose calls may fail *)

\* An operation can start: the file is there and no defragment is under way.
Idle == io.pc = "idle" /\ io.exists

PushIO(element, fault) ==
    /\ Idle
    /\ nPush < MaxPushesIO
    /\ fault = "write" => Len(element) > 0
    /\ LET r == pushIO(file, currentSize, element, fault)
       IN /\ file' = r.file
          /\ currentSize' = r.size
          /\ last' = [op |-> "push", arg |-> element, ret |-> r.ret,
                      defrag |-> FALSE, file |-> file, size |-> currentSize]
          /\ abs' = IF r.ret THEN Append(abs, element) ELSE abs
          /\ nPush' = IF r.ret THEN nPush + 1 ELSE nPush
    /\ io' = [IoIdle EXCEPT !.fault = fault]
    /\ UNCHANGED nRemove

RemoveIO(index, fault) ==
    /\ Idle
    /\ fault # "none" => index < currentSize /\ readLine(file, index).line # <<>>
    /\ LET r == removeIO(file, currentSize, index, fault)
       IN /\ file' = r.file
          /\ currentSize' = r.size
          /\ last' = [op |-> "remove", arg |-> index, ret |-> r.ret,
                      defrag |-> r.defrag, file |-> file, size |-> currentSize]
    /\ abs' = IF index < currentSize /\ fault = "none"
              THEN DeleteAt(abs, index) ELSE abs
    /\ nRemove' = IF index < currentSize /\ fault = "none"
                  THEN nRemove + 1 ELSE nRemove
    /\ io' = [IoIdle EXCEPT !.fault = fault]
    /\ UNCHANGED nPush

RemoveFirstIO(count, fault, failAt) ==
    /\ Idle
    /\ fault # "none" => currentSize > 0
    /\ fault = "seek" =>
           failAt < Len(collectPositions(file, Min(count, currentSize), 0, 0, <<>>))
    /\ LET r == removeFirstIO(file, currentSize, count, fault, failAt)
       IN /\ file' = r.file
          /\ currentSize' = r.size
          /\ last' = [op |-> "removeFirst", arg |-> count, ret |-> r.ret,
                      defrag |-> r.defrag, file |-> file, size |-> currentSize]
          /\ abs' = DropFirst(abs, currentSize - r.pass)
          /\ io' = [IoIdle EXCEPT !.fault = fault, !.passSize = r.pass]
    /\ UNCHANGED <<nPush, nRemove>>

\* defragment under way on the store (f, size), and defragment returning ret.
Running(f, size) ==
    [op |-> "defragment running", arg |-> 0, ret |-> FALSE, defrag |-> FALSE,
     file |-> f, size |-> size]

Returned(ret, f, size) ==
    [op |-> "defragment", arg |-> 0, ret |-> ret, defrag |-> FALSE,
     file |-> f, size |-> size]

\* defragment up to the close of the temporary file.  "openTemp" is
\* SD.open(tempPath, FILE_WRITE) failing, "writeTemp" a tempFile.println
\* failing, after which the temporary file is removed.
DefragCopy(fault) ==
    /\ Idle
    /\ IF Len(file) = 0
       THEN /\ fault = "none"
            /\ last' = Returned(TRUE, file, currentSize)
            /\ io' = IoIdle
       ELSE IF fault = "none"
       THEN /\ io' = [IoIdle EXCEPT !.pc = "copied", !.tempExists = TRUE,
                                   !.temp = printLines(liveLinesFrom(file, 0)),
                                   !.validCount = Len(liveLinesFrom(file, 0))]
            /\ last' = Running(file, currentSize)
       ELSE /\ fault = "writeTemp" => liveLinesFrom(file, 0) # <<>>
            /\ last' = Returned(FALSE, file, currentSize)
            /\ io' = [IoIdle EXCEPT !.fault = fault]
    /\ UNCHANGED <<file, currentSize, abs, nPush, nRemove>>

\* SD.remove(filePath); on failure the temporary file is removed.
DefragRemoveOriginal(fault) ==
    /\ io.pc = "copied"
    /\ IF fault = "none"
       THEN /\ file' = <<>>
            /\ io' = [io EXCEPT !.pc = "removed", !.exists = FALSE]
            /\ UNCHANGED last
       ELSE /\ last' = Returned(FALSE, last.file, last.size)
            /\ io' = [IoIdle EXCEPT !.fault = fault]
            /\ UNCHANGED file
    /\ UNCHANGED <<currentSize, abs, nPush, nRemove>>

\* SD.rename(tempPath, filePath) and currentSize = validCount; on failure the
\* temporary file is removed.
DefragRename(fault) ==
    /\ io.pc = "removed"
    /\ IF fault = "none"
       THEN /\ file' = io.temp
            /\ currentSize' = io.validCount
            /\ last' = Returned(TRUE, last.file, last.size)
            /\ io' = IoIdle
       ELSE /\ last' = Returned(FALSE, last.file, last.size)
            /\ io' = [IoIdle EXCEPT !.exists = FALSE, !.fault = fault]
            /\ UNCHANGED <<file, currentSize>>
    /\ UNCHANGED <<abs, nPush, nRemove>>

ClearIO == Idle /\ Clear /\ io' = IoIdle

NextIO ==
    \/ \E element \in Payloads(nPush) \cup {<<>>}, fault \in {"none", "open", "write"} :
          PushIO(element, fault)
    \/ \E index \in 0..currentSize, fault \in {"none", "open", "seek", "write"} :
          RemoveIO(index, fault)
    \/ \E count \in 0..(currentSize + 1), fault \in {"none", "reopen", "seek"} :
          \E failAt \in 0..(IF fault = "seek" THEN Min(count, currentSize) - 1 ELSE 0) :
              RemoveFirstIO(count, fault, failAt)
    \/ \E fault \in {"none", "openTemp", "writeTemp"} : DefragCopy(fault)
    \/ \E fault \in {"none", "removeOriginal"} : DefragRemoveOriginal(fault)
    \/ \E fault \in {"none", "rename"} : DefragRename(fault)
    \/ ClearIO

SpecIO == Init /\ [][NextIO]_vars

-----------------------------------------------------------------------------
(* The queries *)

Queries ==
    {"size", "isEmpty", "get", "getLast", "getFirst", "getFragmentationRatio",
     "shouldDefragment", "getStats"}

Query(name, arg) ==
    /\ name \notin {"get", "getFirst"} => arg = 0
    /\ LET r == query(file, currentSize, name, arg)
       IN /\ file' = r.file
          /\ currentSize' = r.size
          /\ last' = [op |-> name, arg |-> arg, ret |-> r.ret,
                      defrag |-> FALSE, file |-> file, size |-> currentSize]
    /\ UNCHANGED <<abs, nPush, nRemove, io>>

\* The operations of the store and its queries, on a card whose calls succeed.
NextQuery ==
    \/ \E element \in Payloads(nPush) : PushIO(element, "none")
    \/ \E index \in 0..currentSize : RemoveIO(index, "none")
    \/ \E count \in 0..(currentSize + 1) : RemoveFirstIO(count, "none", 0)
    \/ Defragment /\ UNCHANGED io
    \/ ClearIO
    \/ \E name \in Queries, arg \in 0..(currentSize + 1) : Query(name, arg)

SpecQuery == Init /\ [][NextQuery]_vars

\* The lines a card file is made of: valid payloads, a tombstoned record, and a
\* payload with a tombstone byte in it, as misplaced tombstones leave them.
CardLines == {<<65>>, <<66>>, <<TOMBSTONE>>, <<67, TOMBSTONE>>}

RECURSIVE CardFiles(_)
CardFiles(n) ==
    IF n = 0 THEN {<<>>}
    ELSE CardFiles(n - 1)
         \cup {println(l) \o f : l \in CardLines, f \in CardFiles(n - 1)}

\* The constructor on a card that holds a file at filePath.
InitCard ==
    /\ file \in CardFiles(MaxCardLines)
    /\ currentSize = calcSize(file)
    /\ last = [op |-> "construct", arg |-> 0, ret |-> TRUE, defrag |-> FALSE,
               file |-> <<>>, size |-> 0]
    /\ abs = liveLinesFrom(file, 0)
    /\ nPush = 0
    /\ nRemove = 0
    /\ io = IoIdle

\* The queries on a store constructed on such a file.
NextCard == \E name \in Queries, arg \in 0..(currentSize + 1) : Query(name, arg)

SpecCard == InitCard /\ [][NextCard]_vars

-----------------------------------------------------------------------------
(* Two threads of control on one store *)

\* A push by a second thread of control (an interrupt handler) while the
\* defragment of the first has closed the temporary file and not yet removed
\* the original.
InterruptPush(element) ==
    /\ io.pc = "copied"
    /\ nPush < MaxPushesIO
    /\ LET r == push(file, currentSize, element)
       IN /\ file' = r.file
          /\ currentSize' = r.size
          /\ abs' = IF r.ret THEN Append(abs, element) ELSE abs
          /\ nPush' = IF r.ret THEN nPush + 1 ELSE nPush
    /\ UNCHANGED <<last, nRemove, io>>

\* A remove by the second thread at the same point; the removes that would
\* start a defragment of their own are left out.  The rename brings a record
\* removed here back, so the count of removes is capped.
InterruptRemove(index) ==
    /\ io.pc = "copied"
    /\ nRemove < MaxPushesIO
    /\ index < currentSize
    /\ LET r == remove(file, currentSize, index)
       IN /\ ~r.defrag
          /\ file' = r.file
          /\ currentSize' = r.size
    /\ abs' = DeleteAt(abs, index)
    /\ nRemove' = nRemove + 1
    /\ UNCHANGED <<last, nPush, io>>

NextThreads ==
    \/ \E element \in Payloads(nPush) : PushIO(element, "none")
    \/ \E index \in 0..currentSize : RemoveIO(index, "none")
    \/ DefragCopy("none")
    \/ DefragRemoveOriginal("none")
    \/ DefragRename("none")
    \/ \E element \in Payloads(nPush) : InterruptPush(element)
    \/ \E index \in 0..currentSize : InterruptRemove(index)

SpecThreads == Init /\ [][NextThreads]_vars

\* The lines of a card file whose lines end in LF alone: payloads, a line of
\* length 0 and a tombstoned record.
LfLines == {<<65>>, <<66>>, <<>>, <<TOMBSTONE>>}

RECURSIVE LfFiles(_)
LfFiles(n) ==
    IF n = 0 THEN {<<>>}
    ELSE LfFiles(n - 1)
         \cup {l \o <<LF>> \o f : l \in LfLines, f \in LfFiles(n - 1)}

\* The constructor on a card that holds such a file at filePath.
InitLf ==
    /\ file \in LfFiles(MaxCardLines)
    /\ currentSize = calcSize(file)
    /\ last = [op |-> "construct", arg |-> 0, ret |-> TRUE, defrag |-> FALSE,
               file |-> <<>>, size |-> 0]
    /\ abs = liveLinesFrom(file, 0)
    /\ nPush = 0
    /\ nRemove = 0
    /\ io = IoIdle

SpecLf == InitLf /\ [][NextCard]_vars

-----------------------------------------------------------------------------
(* getLast, one window at a time, on a file of any content *)

\* The bytes a file is made of: a payload byte, the tombstone, CR and LF.
FileBytes == {65, TOMBSTONE, CR, LF}

RECURSIVE ByteFiles(_)
ByteFiles(n) ==
    IF n = 0 THEN {<<>>}
    ELSE ByteFiles(n - 1)
         \cup {<<b>> \o f : b \in FileBytes, f \in ByteFiles(n - 1)}

\* The constructor on a card that holds a file of any content at filePath.
InitBytes ==
    /\ file \in ByteFiles(MaxFileLen)
    /\ currentSize = calcSize(file)
    /\ last = [op |-> "construct", arg |-> 0, ret |-> TRUE, defrag |-> FALSE,
               file |-> <<>>, size |-> 0]
    /\ abs = liveLinesFrom(file, 0)
    /\ nPush = 0
    /\ nRemove = 0
    /\ io = IoIdle

\* getLast with windows of w bytes returning val.
GotLast(w, val) ==
    [op |-> "getLast", arg |-> w, ret |-> val, defrag |-> FALSE,
     file |-> file, size |-> currentSize]

\* getLast up to the first test of pos > 0: it returns at once on an empty
\* store and on an empty file.
GetLastBegin(w) ==
    /\ Idle
    /\ IF isEmpty(currentSize) \/ Len(file) = 0
       THEN /\ last' = GotLast(w, <<>>)
            /\ io' = IoIdle
       ELSE /\ last' = [op |-> "getLast running", arg |-> w, ret |-> <<>>,
                        defrag |-> FALSE, file |-> file, size |-> currentSize]
            /\ io' = [IoIdle EXCEPT !.pc = "scanning", !.pos = Len(file),
                                    !.window = w]
    /\ UNCHANGED <<file, currentSize, abs, nPush, nRemove>>

\* GetLastWindow with the pos -= readSize missing.
GetLastWindowSamePos ==
    /\ io.pc = "scanning"
    /\ LET readSize == Min(io.window, io.pos)
           p == io.pos - readSize
           r == scanBuffer(file, p, readSize, readSize - 1)
       IN IF r.found \/ p = 0
          THEN /\ last' = GotLast(io.window, r.val)
               /\ io' = IoIdle
          ELSE UNCHANGED <<io, last>>
    /\ UNCHANGED <<file, currentSize, abs, nPush, nRemove>>

\* One iteration of the outer loop of getLast: the window below pos is read
\* and scanned; the loop ends when a value is returned from inside it or when
\* pos has reached 0.
GetLastWindow ==
    /\ io.pc = "scanning"
    /\ LET readSize == Min(io.window, io.pos)
           p == io.pos - readSize
           r == scanBuffer(file, p, readSize, readSize - 1)
       IN IF r.found \/ p = 0
          THEN /\ last' = GotLast(io.window, r.val)
               /\ io' = IoIdle
          ELSE /\ io' = [io EXCEPT !.pos = p]
               /\ UNCHANGED last
    /\ UNCHANGED <<file, currentSize, abs, nPush, nRemove>>

NextGetLast ==
    \/ \E w \in WindowSizes : GetLastBegin(w)
    \/ GetLastWindow

SpecGetLast == InitBytes /\ [][NextGetLast]_vars

\* The loop of getLast is sequential code: an iteration that can run does.
FairGetLast == SpecGetLast /\ WF_vars(GetLastWindow)

-----------------------------------------------------------------------------
(* Construction on a card that may fail *)

\* The constructor on a card without file at filePath.  fault "begin" is
\* SD.begin() failing, "checkFile" the creation of the missing file failing; both return before currentSize,
\* which has no initializer, is assigned: its value is indeterminate.
InitConstruct ==
    \E fault \in {"none", "begin", "checkFile"},
       indeterminate \in 0..MaxIndeterminate :
        /\ fault = "none" => indeterminate = 0
        /\ file = <<>>
        /\ currentSize = IF fault = "none" THEN calcSize(<<>>) ELSE indeterminate
        /\ last = [op |-> "construct", arg |-> 0, ret |-> fault = "none",
                   defrag |-> FALSE, file |-> <<>>, size |-> 0]
        /\ abs = <<>>
        /\ nPush = 0
        /\ nRemove = 0
        /\ io = [IoIdle EXCEPT !.exists = (fault = "none"), !.fault = fault]

SpecConstruct == InitConstruct /\ [][NextIO]_vars

-----------------------------------------------------------------------------
(* Properties *)

\* The lines of the file from reader position pos on, as readStringUntil
\* delivers them.
RECURSIVE LinesFrom(_, _)
LinesFrom(f, pos) ==
    IF pos >= Len(f) THEN <<>>
    ELSE <<readStringUntil(f, pos)>> \o LinesFrom(f, NextPos(f, pos))

HasTombstonedLine(f) ==
    \E k \in 1..Len(LinesFrom(f, 0)) : charAt(LinesFrom(f, 0)[k], 0) = TOMBSTONE

RatioIsZero(r) == r.num = 0
RatioLeq(a, b) == a.num * b.den <= b.num * a.den
RatioLess(a, b) == a.num * b.den < b.num * a.den

\* get(index) in the state before the last operation
getBefore(index) == get(last.file, last.size, index)

\* C1: get(i), for every i < size(), is the i-th element of the abstract list
\* (append on push, delete the i-th on remove(i), drop the first min(n, size)
\* on removeFirst(n)).
C1_RefinesAbstractList ==
    \A i \in 1..currentSize :
        /\ i <= Len(abs)
        /\ get(file, currentSize, i - 1) = abs[i]

\* C2: the cached size() is the number of lines of the file that calcSize counts.
C2_SizeInvariant == currentSize = calcSize(file)

\* C3: in every non-empty state reached by push and remove, getLast() equals
\* get(size() - 1), whatever the size of the read window.
C3_GetLastIsLastIndex ==
    currentSize > 0 =>
        \A w \in WindowSizes :
            getLastW(file, currentSize, w) = get(file, currentSize, currentSize - 1)

\* C3 witness: a remove that compacted the file left a non-empty store.
C3_Witness ==
    /\ currentSize > 0
    /\ last.op = "remove"
    /\ last.defrag
    /\ Len(get(file, currentSize, currentSize - 1)) = MaxPayloadLen

\* C4: after every prefix of pushes and in-range removes, size() is the number
\* of pushes minus the number of removes.
C4_SizeIsPushesMinusRemoves == currentSize = nPush - nRemove

\* C4 witness: all pushes made, several removes, the last one compacting.
C4_Witness ==
    /\ nPush = MaxPushes
    /\ nRemove >= 2
    /\ nRemove < nPush
    /\ last.op = "remove"
    /\ last.defrag

\* C5: a push that returned true is followed by get(size() - 1) returning the
\* pushed payload, and size() has grown by 1.
C5_PushRoundTrip ==
    (last.op = "push" /\ last.ret) =>
        /\ currentSize = last.size + 1
        /\ get(file, currentSize, currentSize - 1) = last.arg

\* C6: remove(index) with index < size() returns what get(index) returned
\* before the call; afterwards get(j) is unchanged for j < index and is the
\* former get(j + 1) for index <= j < size().
C6_RemoveShiftsLeft ==
    (last.op = "remove" /\ last.arg < last.size) =>
        /\ last.ret = getBefore(last.arg)
        /\ \A j \in 0..(currentSize - 1) :
              get(file, currentSize, j) =
                  IF j < last.arg THEN getBefore(j) ELSE getBefore(j + 1)

\* C7: of two remove(0) calls in a row on a store with size() >= 2, the second
\* returns the record that was at index 1 before the first, and size() has
\* decreased by 2 overall.
C7_RemoveZeroTwice ==
    [][(/\ last.op = "remove" /\ last.arg = 0 /\ last.size >= 2
        /\ last'.op = "remove" /\ last'.arg = 0 /\ last' # last)
       => (/\ last'.ret = getBefore(1)
           /\ currentSize' = last.size - 2)]_vars

\* C8: removeFirst(count) on s = size() records returns k = min(count, s),
\* leaves size() = s - k, and get(j) afterwards is the former get(j + k) for
\* every j < s - k.
C8_RemoveFirstDropsPrefix ==
    last.op = "removeFirst" =>
        LET k == Min(last.arg, last.size)
        IN /\ last.ret = k
           /\ currentSize = last.size - k
           /\ \A j \in 0..(last.size - k - 1) :
                 get(file, currentSize, j) = getBefore(j + k)

\* C9: a defragment() that returned true left size() and every get(i),
\* i < size(), as they were.
C9_DefragmentPreservesContent ==
    (last.op = "defragment" /\ last.ret) =>
        /\ currentSize = last.size
        /\ \A i \in 0..(currentSize - 1) :
              get(file, currentSize, i) = getBefore(i)

\* C10: after a defragment() that returned true the file has no tombstoned
\* line and the fragmentation ratio is 0; the ratio is not larger than before,
\* and smaller when a tombstoned line existed before.
C10_DefragmentClearsFragmentation ==
    (last.op = "defragment" /\ last.ret) =>
        /\ ~HasTombstonedLine(file)
        /\ RatioIsZero(getFragmentationRatio(file))
        /\ RatioLeq(getFragmentationRatio(file), getFragmentationRatio(last.file))
        /\ HasTombstonedLine(last.file) =>
              RatioLess(getFragmentationRatio(file),
                        getFragmentationRatio(last.file))

\* C10 witness: defragment ran on a file with a tombstoned line and live lines.
C10_Witness ==
    /\ last.op = "defragment"
    /\ last.ret
    /\ HasTombstonedLine(last.file)
    /\ currentSize > 0

\* C11: whenever defragment() returned false, the file at the store path
\* exists with exactly the bytes it had before the call, and size() is what it
\* was before the call.
C11_FailedDefragmentKeepsFile ==
    (last.op = "defragment" /\ ~last.ret) =>
        /\ io.exists
        /\ file = last.file
        /\ currentSize = last.size

\* C12: at every intermediate step of defragment a file exists at the store
\* path, and its live records are the live records of the file defragment was
\* called on, in the same order.
C12_AtomicReplacement ==
    io.pc # "idle" =>
        /\ io.exists
        /\ liveLinesFrom(file, 0) = liveLinesFrom(last.file, 0)

\* C13: a remove(index) with index < size() that could not commit the
\* tombstone byte (open for writing, seek or write failed) leaves size() as it
\* was before the call.
C13_FailedRemoveKeepsSize ==
    (last.op = "remove" /\ io.fault \in {"open", "seek", "write"}) =>
        currentSize = last.size

\* C14: whenever push returned false (null payload, open for append failed,
\* write failed), size() and the bytes of the file are as before the call.
C14_FailedPushNoEffect ==
    (last.op = "push" /\ ~last.ret) =>
        /\ file = last.file
        /\ currentSize = last.size

\* C14 witness: a push of a payload to a non-empty store returned false
\* because the write failed.
C14_Witness ==
    /\ last.op = "push"
    /\ ~last.ret
    /\ io.fault = "write"
    /\ Len(last.arg) > 0
    /\ last.size > 0

\* C15: the count removeFirst returned is size() before the call minus size()
\* at the end of its tombstoning pass, also when the file could not be
\* reopened for writing and when a seek failed part-way through the pass.
C15_RemoveFirstReturnsTombstoned ==
    last.op = "removeFirst" => last.ret = last.size - io.passSize

\* C16: for every index >= size(), get(index) returns the empty string, and a
\* remove(index) returned the empty string and changed neither size() nor any
\* byte of the file.
C16_OutOfRange ==
    /\ \A index \in currentSize..(currentSize + MaxPushes) :
           get(file, currentSize, index) = <<>>
    /\ (last.op = "remove" /\ last.arg >= last.size) =>
           /\ last.ret = <<>>
           /\ file = last.file
           /\ currentSize = last.size

\* C16 witness: remove(size()) on a store that holds live and tombstoned lines.
C16_Witness ==
    /\ last.op = "remove"
    /\ last.arg >= last.size
    /\ last.size >= 2
    /\ HasTombstonedLine(last.file)

\* C17: on a store with size() = 0, getLast() returns the empty string,
\* remove(0) the empty string, removeFirst(n) 0, getFirst(n) the empty sequence
\* and defragment() true; after each of them size() is still 0, and a push is
\* still accepted.
C17_EmptyStoreOperations ==
    /\ currentSize = 0 =>
           /\ getLast(file, currentSize) = <<>>
           /\ \A n \in 0..MaxPushes : getFirst(file, currentSize, n) = <<>>
    /\ (last.size = 0 /\ last.op = "remove" /\ last.arg = 0) =>
           last.ret = <<>> /\ currentSize = 0
    /\ (last.size = 0 /\ last.op = "removeFirst") =>
           last.ret = 0 /\ currentSize = 0
    /\ (last.size = 0 /\ last.op = "defragment") =>
           last.ret /\ currentSize = 0
    /\ (last.size = 0 /\ last.op = "push") =>
           last.ret /\ currentSize = 1

\* C18: after a push that returned true, getLast() returns the pushed payload
\* for every size of the read window, whatever the record lengths.
C18_GetLastAfterPush ==
    (last.op = "push" /\ last.ret) =>
        \A w \in WindowSizes : getLastW(file, currentSize, w) = last.arg

\* C18 witness: the pushed record follows another record, spans more than one
\* window and starts at the first byte of a window, so that the delimiter
\* before it is the last byte of the window before.
C18_Witness ==
    /\ last.op = "push"
    /\ last.ret
    /\ last.size > 0
    /\ \E w \in WindowSizes :
           /\ Len(println(last.arg)) > w
           /\ Len(println(last.arg)) % w = 0

\* C19: if the last line of the file is tombstoned and a live line precedes
\* it, getLast() returns the last live line, for every size of the read window.
C19_GetLastSkipsTombstones ==
    LET lines == LinesFrom(file, 0)
        live == liveLinesFrom(file, 0)
    IN (/\ lines # <<>>
        /\ charAt(lines[Len(lines)], 0) = TOMBSTONE
        /\ live # <<>>) =>
           \A w \in WindowSizes :
               getLastW(file, currentSize, w) = live[Len(live)]

\* C20: when every line of the file that is not tombstoned is a valid payload,
\* getFirst(n) returns min(n, size()) elements, its k-th element is get(k),
\* and none of them is a tombstoned line.
C20_GetFirstIsPrefix ==
    (\A k \in 1..Len(LinesFrom(file, 0)) :
        charAt(LinesFrom(file, 0)[k], 0) # TOMBSTONE =>
            deserializeJson(trim(LinesFrom(file, 0)[k]))) =>
        \A n \in 0..(currentSize + 1) :
            LET doc == getFirst(file, currentSize, n)
            IN /\ Len(doc) = Min(n, currentSize)
               /\ \A k \in 1..Len(doc) :
                      /\ doc[k] = get(file, currentSize, k - 1)
                      /\ charAt(doc[k], 0) # TOMBSTONE

\* C20 witness: a store of three or more records behind a tombstoned line, of
\* which getFirst is asked for more than size().
C20_Witness ==
    /\ currentSize >= 3
    /\ HasTombstonedLine(file)
    /\ Len(getFirst(file, currentSize, currentSize + 1)) = currentSize

\* The lines among the first numElements live lines (as readLine counts them)
\* that getFirst cannot use: unreadable, or not a valid payload.
HasBadLine(f, numElements) ==
    \E k \in 0..(numElements - 1) :
        readLine(f, k).line = <<>> \/ ~deserializeJson(readLine(f, k).line)

\* C21: for every n, getFirst(n) has length 0 or length min(n, size()); it is
\* empty whenever one of the first min(n, size()) live lines is unreadable or
\* is not a valid payload.
C21_GetFirstAllOrNothing ==
    \A n \in 0..(currentSize + 1) :
        LET doc == getFirst(file, currentSize, n)
        IN /\ Len(doc) \in {0, Min(n, currentSize)}
           /\ HasBadLine(file, Min(n, currentSize)) => doc = <<>>

\* C21 witness: the first live line is a valid payload, the second is not, and
\* getFirst(2) has returned the empty sequence.
C21_Witness ==
    /\ last.op = "getFirst"
    /\ last.arg = 2
    /\ last.ret = <<>>
    /\ currentSize >= 2
    /\ deserializeJson(readLine(file, 0).line)
    /\ readLine(file, 1).line # <<>>
    /\ ~deserializeJson(readLine(file, 1).line)
    /\ getFirst(file, currentSize, 2) = <<>>

\* C22: after clear() the file exists with length 0 and size() is 0: the store
\* is in the state of a freshly constructed empty store.
C22_ClearResets ==
    last.op = "clear" =>
        /\ io.exists
        /\ file = <<>>
        /\ currentSize = 0
        /\ calcSize(file) = 0
        /\ getLast(file, currentSize) = <<>>
        /\ \A i \in 0..MaxPushes : get(file, currentSize, i) = <<>>

\* C22 witness: clear on a store that held live and tombstoned records.
C22_Witness ==
    /\ last.op = "clear"
    /\ last.size >= 2
    /\ HasTombstonedLine(last.file)

\* C23: when the card could not be initialised or the file could not be
\* created at construction, size() is 0 and isEmpty() is true.
C23_FailedConstructIsEmpty ==
    (last.op = "construct" /\ ~last.ret) =>
        currentSize = 0 /\ isEmpty(currentSize)

\* C24: whenever remove or removeFirst has returned, the fragmentation ratio
\* of the file is below DEFRAG_THRESHOLD, 0.6.
C24_RatioBelowDefragThreshold ==
    last.op \in {"remove", "removeFirst"} =>
        ~RatioGeq(getFragmentationRatio(file), DefragThresholdNum,
                  DefragThresholdDen)

\* The bytes of the tombstoned lines of f from pos on, delimiters included.
RECURSIVE TombstonedBytesFrom(_, _)
TombstonedBytesFrom(f, pos) ==
    IF pos >= Len(f) THEN 0
    ELSE (IF f[pos + 1] = TOMBSTONE THEN NextPos(f, pos) - pos ELSE 0)
         + TombstonedBytesFrom(f, NextPos(f, pos))

\* C25: the fragmentation ratio lies in [0, 1] and is the number of bytes of
\* the tombstoned lines, delimiters included, over the number of bytes of the
\* file; it is 0 for an empty file and for a file without tombstoned line and
\* positive as soon as there is a tombstoned line.
C25_RatioIsTombstonedFraction ==
    LET r == getFragmentationRatio(file)
    IN /\ r.den > 0
       /\ 0 <= r.num /\ r.num <= r.den
       /\ validDataSizeFrom(file, 0) <= Len(file)
       /\ r.num * Len(file) = TombstonedBytesFrom(file, 0) * r.den
       /\ Len(file) = 0 => RatioIsZero(r)
       /\ RatioIsZero(r) <=> ~HasTombstonedLine(file)

\* C25 witness: a file with tombstoned and live lines left by removeFirst.
C25_Witness ==
    /\ last.op = "removeFirst"
    /\ last.ret >= 2
    /\ HasTombstonedLine(file)
    /\ liveLinesFrom(file, 0) # <<>>

\* C29: no query changes size() or a byte of the file, and getStats reports
\* size() as size and the length of the file as fileSize.
C29_QueriesReadOnly ==
    last.op \in Queries =>
        /\ file = last.file
        /\ currentSize = last.size
        /\ last.op = "getStats" =>
              /\ last.ret.size = currentSize
              /\ last.ret.fileSize = Len(file)

\* C29 witness: getStats on a store that holds live and tombstoned records.
C29_Witness ==
    /\ last.op = "getStats"
    /\ currentSize >= 2
    /\ HasTombstonedLine(file)
    /\ last.ret.fileSize > 0

\* The offset of the n-th line of f from pos on, counting from 0, whose first
\* byte is not the tombstone; -1 if there is none.
RECURSIVE LiveOffsetFrom(_, _, _)
LiveOffsetFrom(f, pos, n) ==
    IF pos >= Len(f) THEN -1
    ELSE IF f[pos + 1] = TOMBSTONE THEN LiveOffsetFrom(f, NextPos(f, pos), n)
    ELSE IF n = 0 THEN pos
    ELSE LiveOffsetFrom(f, NextPos(f, pos), n - 1)

\* The offsets at which the lines of f from pos on start.
RECURSIVE LineOffsetsFrom(_, _)
LineOffsetsFrom(f, pos) ==
    IF pos >= Len(f) THEN <<>>
    ELSE <<pos>> \o LineOffsetsFrom(f, NextPos(f, pos))

\* The offsets of the live records of f: the lines that are not blank and do
\* not start with the tombstone.
RECURSIVE LiveOffsetsFrom(_, _)
LiveOffsetsFrom(f, pos) ==
    IF pos >= Len(f) THEN {}
    ELSE (IF /\ f[pos + 1] # TOMBSTONE
             /\ Len(trim(readStringUntil(f, pos))) > 0
          THEN {pos} ELSE {})
         \cup LiveOffsetsFrom(f, NextPos(f, pos))

LiveOffsets(f) == LiveOffsetsFrom(f, 0)

\* The file as the operation op(arg) leaves it at the end of its tombstoning
\* pass, before any compaction, when called on the store (f, size).
Tombstoned(f, size, op, arg) ==
    IF op = "remove" /\ arg < size /\ readLine(f, arg).line # <<>>
    THEN writeAt(f, readLine(f, arg).cursor, TOMBSTONE)
    ELSE IF op = "removeFirst" /\ size > 0
    THEN tombstoneAll(f, collectPositions(f, Min(arg, size), 0, 0, <<>>))
    ELSE f

\* One step of the record lifecycle.  Tombstoning is in place, makes no record
\* live, and is done by remove and removeFirst only; a compaction leaves the
\* live records as they are, in order; a push adds one live record at the end
\* of the file; nothing else changes the file.  With purge, clear is allowed
\* to empty the file.
LifecycleStep(purge) ==
    LET op == last'.op
        mid == Tombstoned(file, currentSize, op, last'.arg)
        liveMid == LiveOffsets(mid)
        liveBefore == LiveOffsets(file)
    IN \/ purge /\ op = "clear" /\ file' = <<>>
       \/ /\ Len(mid) = Len(file)
          /\ liveMid \subseteq liveBefore
          /\ liveMid # liveBefore => op \in {"remove", "removeFirst"}
          /\ IF op = "defragment" \/ last'.defrag
             THEN liveLinesFrom(file', 0) = liveLinesFrom(mid, 0)
             ELSE IF op = "push" /\ last'.ret
             THEN /\ file' = mid \o println(last'.arg)
                  /\ LiveOffsets(file') = liveBefore \cup {Len(file)}
             ELSE file' = mid

C27_TombstoneInPlace ==
    (last.op = "remove" /\ last.arg < last.size /\ ~last.defrag) =>
        LET off == LiveOffsetFrom(last.file, 0, last.arg)
        IN /\ off >= 0
           /\ Len(file) = Len(last.file)
           /\ file[off + 1] = TOMBSTONE
           /\ \A k \in 1..Len(file) :
                  file[k] # last.file[k] <=> k = off + 1
           /\ LineOffsetsFrom(file, 0) = LineOffsetsFrom(last.file, 0)

\* C27 witness: a remove of a record that is neither the first nor the last
\* line of the file, without compaction.
C27_Witness ==
    /\ last.op = "remove"
    /\ last.arg < last.size
    /\ ~last.defrag
    /\ LiveOffsetFrom(last.file, 0, last.arg) > 0
    /\ LiveOffsetFrom(last.file, 0, last.arg + 1) > 0
    /\ HasTombstonedLine(last.file)

\* C28: a push that returned true has added exactly one line, ended by the
\* delimiter, at the previous end of the file and has changed no byte written
\* before: get(i) for every i < the old size() and the lines of the file that
\* existed, live or tombstoned, are unchanged.
C28_PushAppendsOnly ==
    (last.op = "push" /\ last.ret) =>
        /\ file = last.file \o println(last.arg)
        /\ LinesFrom(file, 0) = LinesFrom(last.file, 0) \o <<last.arg \o <<CR>> >>
        /\ LineOffsetsFrom(file, 0) =
              LineOffsetsFrom(last.file, 0) \o <<Len(last.file)>>
        /\ \A i \in 0..(last.size - 1) :
              get(file, currentSize, i) = getBefore(i)

\* C28 witness: a push to a store that holds live and tombstoned records.
C28_Witness ==
    /\ last.op = "push"
    /\ last.ret
    /\ last.size >= 2
    /\ HasTombstonedLine(last.file)

\* C30: when no operation is under way, size() and the records of the store
\* are those of a serial execution of the operations called so far, which is
\* the abstract list whatever the order (defragment does not change it), and
\* size() is the number of live lines of the file.
C30_Serializable ==
    Idle =>
        /\ currentSize = Len(abs)
        /\ \A i \in 1..currentSize : get(file, currentSize, i - 1) = abs[i]
        /\ currentSize = calcSize(file)

\* The file holds a live record: a line that is not blank and does not start
\* with the tombstone, with or without the white space around it.
HasLiveRecord(f) ==
    \E pos \in LiveOffsets(f) :
        charAt(trim(readStringUntil(f, pos)), 0) # TOMBSTONE

\* A getLast in progress ends.
GetLastTerminates == (io.pc = "scanning") ~> (io.pc = "idle")

\* Each iteration that does not end the scan lowers pos by one window.
GetLastDescends ==
    [][(io.pc = "scanning" /\ io'.pc = "scanning") =>
          /\ io'.pos < io.pos
          /\ io'.pos = io.pos - Min(io.window, io.pos)]_vars

\* getLast returns what the scan of the whole file returns, and nothing on a
\* store of size > 0 only if the file holds no live record.
GetLastFindsLive ==
    last.op = "getLast" =>
        /\ last.ret = getLastW(file, currentSize, last.arg)
        /\ (last.ret = <<>> /\ currentSize > 0) => ~HasLiveRecord(file)

RecordLines(f) ==
    SelectSeq(LinesFrom(f, 0),
              LAMBDA l : Len(l) > 0 /\ l[1] # TOMBSTONE)

\* C32: on a store constructed over a file of LF-terminated lines, some of
\* length 0, size() is the number of lines that are neither empty nor
\* tombstoned, get(i) is the i-th of them, not empty, for every i < size(),
\* and getLast() is get(size() - 1).
C32_BlankLinesAreNotRecords ==
    /\ currentSize = Len(RecordLines(file))
    /\ \A i \in 0..(currentSize - 1) :
          /\ get(file, currentSize, i) # <<>>
          /\ get(file, currentSize, i) = trim(RecordLines(file)[i + 1])
    /\ currentSize > 0 =>
          getLast(file, currentSize) = get(file, currentSize, currentSize - 1)

\* C33: every offset at which removeFirst writes the tombstone byte is the
\* offset of the first byte of a live record, the one readLine computes for
\* that record; no tombstone byte lands on a delimiter or inside a record.
C33_RemoveFirstOffsets ==
    (last.op = "removeFirst" /\ last.size > 0) =>
        LET positions ==
                collectPositions(last.file, Min(last.arg, last.size), 0, 0, <<>>)
        IN \A k \in 1..Len(positions) :
               /\ positions[k] = readLine(last.file, k - 1).cursor
               /\ positions[k] \in LiveOffsets(last.file)
               /\ last.file[positions[k] + 1] \notin {CR, LF}

\* C34: between operations the fragmentation ratio is below 0.7, the
\* threshold remove and removeFirst pass to shouldDefragment, and a push never
\* raises the ratio.
C34_RatioBelowThreshold ==
    /\ ~RatioGeq(getFragmentationRatio(file), ThresholdNum, ThresholdDen)
    /\ (last.op = "push" /\ last.ret) =>
          RatioLeq(getFragmentationRatio(file), getFragmentationRatio(last.file))

\* C34 witness: on a store that received MaxPushes records, a remove that
\* left the ratio at 0.6 or more, below 0.7, and did not compact.
C34_Witness ==
    /\ last.op = "remove"
    /\ ~last.defrag
    /\ RatioGeq(getFragmentationRatio(file), DefragThresholdNum,
                DefragThresholdDen)
    /\ nPush = MaxPushes

\* The store (f, size) after k calls of remove(0).
RECURSIVE RemoveZeroTimes(_, _, _)
RemoveZeroTimes(f, size, k) ==
    IF k = 0 THEN [file |-> f, size |-> size]
    ELSE LET r == remove(f, size, 0)
         IN RemoveZeroTimes(r.file, r.size, k - 1)

\* C35: in every state and for every k <= size(), removeFirst(k) and k calls
\* of remove(0) leave the same size() and the same get(i) for every
\* i < size().
C35_RemoveFirstIsRemoveZero ==
    \A k \in 0..currentSize :
        LET a == removeFirst(file, currentSize, k)
            b == RemoveZeroTimes(file, currentSize, k)
        IN /\ a.size = b.size
           /\ \A i \in 0..(a.size - 1) :
                 get(a.file, a.size, i) = get(b.file, b.size, i)

\* Every payload a store can be given.
AllPayloads == UNION {Payloads(n) : n \in 0..(MaxPushes - 1)}

\* The texts of the live lines of f.
LiveTexts(f) ==
    LET lines == liveLinesFrom(f, 0)
    IN {lines[k] : k \in 1..Len(lines)}

\* The payloads pushed so far, told by their serial letter, that are not among
\* the texts live: records tombstoned, and purged or not.
NotLiveAnymore(n, live) == {p \in AllPayloads : p[1] < 65 + n} \ live

\* The texts the last operation returned, if it was get, getLast or getFirst.
TextsReturned ==
    IF last.op \in {"get", "getLast"} THEN {last.ret} \ {<<>>}
    ELSE IF last.op = "getFirst"
    THEN {last.ret[k] : k \in 1..Len(last.ret)}
    ELSE {}

\* No tombstoned line and no record that is not live is returned.
ReturnsNoTombstoned ==
    LET returned == TextsReturned
    IN returned # {} =>
          /\ \A t \in returned : charAt(t, 0) # TOMBSTONE
          /\ returned \cap NotLiveAnymore(nPush, LiveTexts(file)) = {}

\* A record that is not live is not live after the step, and unless the step
\* wrote the file anew (compaction, clear), every line that starts with the
\* tombstone byte still has it at the same offset and is not live.
StaysTombstoned ==
    file' # file =>
        /\ NotLiveAnymore(nPush, LiveTexts(file))
              \subseteq NotLiveAnymore(nPush', LiveTexts(file'))
        /\ (last'.op \notin {"clear", "defragment"} /\ ~last'.defrag) =>
              LET offs == LineOffsetsFrom(file, 0)
                  liveAfter == LiveOffsets(file')
              IN \A k \in 1..Len(offs) :
                     file[offs[k] + 1] = TOMBSTONE =>
                        /\ offs[k] < Len(file')
                        /\ file'[offs[k] + 1] = TOMBSTONE
                        /\ offs[k] \notin liveAfter

C37_DefragmentIdempotent ==
    /\ LET first == defragment(file, currentSize)
           second == defragment(first.file, first.size)
       IN first.ret =>
             /\ second.ret
             /\ second.file = first.file
             /\ second.size = first.size
    /\ (last.op = "defragment" /\ last.ret) =>
          defragment(file, currentSize) =
              [file |-> file, size |-> currentSize, ret |-> TRUE]

\* C37 witness: a defragment() that purged tombstoned lines and kept live
\* ones has returned true.
C37_Witness ==
    /\ last.op = "defragment"
    /\ last.ret
    /\ HasTombstonedLine(last.file)
    /\ Len(file) < Len(last.file)
    /\ currentSize >= 2

=============================================================================
